---- MODULE Spec2Model ----
(***************************************************************************)
(* The weather widget of src/src/App.jsx as a state machine.               *)
(*                                                                         *)
(* State: the four useState cells of App (city, weather, error, unit), the *)
(* deployment context read by fetchWeather (window.location.hostname and   *)
(* the two environment variables holding the API key), the getWeather      *)
(* invocations suspended on their network request, and three history       *)
(* variables (netCalls, last, trigger) that record what the handlers did.  *)
(*                                                                         *)
(* Conventions.  A JavaScript string typed into the input is a sequence of *)
(* characters; an object is a function from its property names to their    *)
(* values; a property whose value is undefined is a name outside the       *)
(* DOMAIN of the object; null is the value NULL; an unset environment      *)
(* variable is the empty (falsy) string.                                   *)
(***************************************************************************)
EXTENDS Integers, Sequences, FiniteSets

VARIABLES
    city,        \* useState(""): the query text
    weather,     \* useState(null): the current record
    error,       \* useState(""): the message shown
    unit,        \* useState("C"): "C" or "F"
    hostname,    \* window.location.hostname
    reactAppKey, \* process.env.REACT_APP_WEATHER_API_KEY
    viteKey,     \* process.env.VITE_WEATHER_API_KEY
    inflight,    \* ids of the getWeather invocations awaiting their response
    netCalls,    \* netCalls[i]: fetch() calls made by the i-th fetchWeather
    last,        \* the invocation that last resumed, and the response it got
    trigger      \* how the last call of getWeather left line 53

vars == <<city, weather, error, unit, hostname, reactAppKey, viteKey,
          inflight, netCalls, last, trigger>>

---------------------------------------------------------------------------
(* Bounds *)

\* longest query text typed into the input
MaxLen == 2

\* number of fetchWeather invocations in one behaviour
MaxSearches == 3

---------------------------------------------------------------------------
(* Values *)

NULL == [null |-> TRUE]

Chars == {" ", "a"}

Cities == UNION {[1..n -> Chars] : n \in 0..MaxLen}

Hostnames == {"localhost", "127.0.0.1", "weather-frontend.vercel.app"}

KeyValues == {"", "k3y"}

Units == {"C", "F"}

SixFields == {"city", "temp", "humidity", "wind", "condition", "icon"}

\* bodies in the shape of the local backend
LocalFull ==
    [city |-> "Paris", temp |-> 20, humidity |-> 50, wind |-> 3,
     condition |-> "clear sky", icon |-> "01d"]

LocalHot ==
    [city |-> "Doha", temp |-> 100, humidity |-> 10, wind |-> 1,
     condition |-> "haze", icon |-> "50d"]

LocalPartial ==
    [city |-> "Oslo", temp |-> 0, humidity |-> 80, condition |-> "snow"]

LocalNotFound == [error |-> "City not found"]

LocalFalsyMarker == [error |-> ""]

\* bodies in the shape of the OpenWeather API
ProviderFull ==
    [name |-> "Paris", main |-> [temp |-> 20, humidity |-> 50],
     wind |-> [speed |-> 3],
     weather |-> <<[description |-> "clear sky", icon |-> "01d"]>>]

ProviderNoWeather ==
    [name |-> "Oslo", main |-> [temp |-> 0, humidity |-> 80],
     wind |-> [speed |-> 7]]

ProviderEmptyWeather ==
    [name |-> "Lima", main |-> [humidity |-> 70], weather |-> <<>>]

LocalShaped == {LocalFull, LocalHot, LocalPartial}

ProviderShaped == {ProviderFull, ProviderNoWeather, ProviderEmptyWeather}

Markers == {LocalNotFound, LocalFalsyMarker}

Bodies == LocalShaped \cup ProviderShaped \cup Markers \cup {NULL}

\* what the network can answer to one fetch()
Rejected == [kind |-> "reject"]

BadJson == [kind |-> "badjson"]

Statuses == {404, 500}

Json(b) == [kind |-> "json", body |-> b]

Responses ==
    {Rejected, BadJson}
    \cup {[kind |-> "status", status |-> s] : s \in Statuses}
    \cup {Json(b) : b \in Bodies}

\* The answers OpenWeather is given in the model: every one but the bodies
\* whose wind is a number.  (3)?.speed is undefined in JavaScript, so such a
\* body normalises like one without wind; the model's objects are functions
\* and a number has no DOMAIN to look speed up in.
ProviderResponses ==
    Responses \ {Json(b) : b \in {x \in LocalShaped : "wind" \in DOMAIN x}}

\* the "response" of an invocation that never reached the network
NoRequest == [kind |-> "none"]

---------------------------------------------------------------------------
(* Pure helpers *)

\* String.prototype.trim over the model's alphabet: " " is the white space
RECURSIVE TrimStart(_)
TrimStart(s) ==
    IF s = <<>> THEN s
    ELSE IF Head(s) = " " THEN TrimStart(Tail(s)) ELSE s

RECURSIVE TrimEnd(_)
TrimEnd(s) ==
    IF s = <<>> THEN s
    ELSE IF s[Len(s)] = " " THEN TrimEnd(SubSeq(s, 1, Len(s) - 1)) ELSE s

Trim(s) == TrimEnd(TrimStart(s))

\* a guard that forgets to trim
RejectsNoTrim(c) == c = <<>>

\* line 53: if (!city.trim()) return;
Rejects(c) == Trim(c) = <<>>

\* obj.k is not undefined
Has(obj, k) == k \in DOMAIN obj

\* JavaScript truthiness of obj.error (undefined and "" are falsy)
HasErrorMarker(obj) == Has(obj, "error") /\ obj.error # ""

\* line 15, on a record whose temp is a number
convertTemp(tempC) == IF unit = "C" THEN tempC ELSE (tempC * 9) \div 5 + 32

\* line 19
isLocal == hostname = "localhost" \/ hostname = "127.0.0.1"

\* line 28: a || b
apiKey == IF reactAppKey # "" THEN reactAppKey ELSE viteKey

\* a fetchWeather that calls fetch() before looking at the key
ReachesNetworkNoKeyCheck == TRUE

\* lines 21-31: fetchWeather calls fetch() unless the key check of line 29 throws
ReachesNetwork == isLocal \/ apiKey # ""

\* lines 41-48: the optional chains of the normalisation, one property each
NormPresent(data, k) ==
    CASE k = "city" -> Has(data, "name")
      [] k = "temp" -> Has(data, "main") /\ Has(data.main, "temp")
      [] k = "humidity" -> Has(data, "main") /\ Has(data.main, "humidity")
      [] k = "wind" -> Has(data, "wind") /\ Has(data.wind, "speed")
      [] k = "condition" ->
            /\ Has(data, "weather")
            /\ Len(data.weather) >= 1
            /\ Has(data.weather[1], "description")
      [] k = "icon" ->
            /\ Has(data, "weather")
            /\ Len(data.weather) >= 1
            /\ Has(data.weather[1], "icon")

NormValue(data, k) ==
    CASE k = "city" -> data.name
      [] k = "temp" -> data.main.temp
      [] k = "humidity" -> data.main.humidity
      [] k = "wind" -> data.wind.speed
      [] k = "condition" -> data.weather[1].description
      [] k = "icon" -> data.weather[1].icon

Normalize(data) ==
    [k \in {f \in SixFields : NormPresent(data, f)} |-> NormValue(data, k)]

Throw(msg) == [threw |-> TRUE, message |-> msg]

Return(data) == [threw |-> FALSE, data |-> data]

\* lines 18-50: what fetchWeather settles to, given the network's answer
fetchWeather(resp) ==
    IF isLocal
    THEN CASE resp.kind = "reject" -> Throw("Failed to fetch")
           [] resp.kind = "status" -> Throw("Local backend error")
           [] resp.kind = "badjson" -> Throw("SyntaxError")
           [] resp.kind = "json" -> Return(resp.body)
    ELSE IF apiKey = ""
    THEN Throw("WEATHER API key missing in environment")
    ELSE CASE resp.kind = "reject" -> Throw("Failed to fetch")
           [] resp.kind = "status" -> Throw("OpenWeather error")
           [] resp.kind = "badjson" -> Throw("SyntaxError")
           [] resp.kind = "json" ->
                IF resp.body = NULL
                THEN Throw("TypeError")   \* data.name on null
                ELSE Return(Normalize(resp.body))

\* a catch block that only sets the message
SettleKeepsRecord(res) ==
    IF res.threw \/ res.data = NULL
    THEN [weather |-> weather, error |-> "Server Error"]
    ELSE IF HasErrorMarker(res.data)
    THEN [weather |-> NULL, error |-> "City not found"]
    ELSE [weather |-> res.data, error |-> ""]

\* a not-found branch that only sets the message
SettleNotFoundKeepsRecord(res) ==
    IF res.threw \/ res.data = NULL
    THEN [weather |-> NULL, error |-> "Server Error"]
    ELSE IF HasErrorMarker(res.data)
    THEN [weather |-> weather, error |-> "City not found"]
    ELSE [weather |-> res.data, error |-> ""]

\* lines 55-68: the state getWeather writes once fetchWeather has settled
\* (data.error on null throws inside the try, so it lands in the catch)
Settle(res) ==
    IF res.threw \/ res.data = NULL
    THEN [weather |-> NULL, error |-> "Server Error"]
    ELSE IF HasErrorMarker(res.data)
    THEN [weather |-> NULL, error |-> "City not found"]
    ELSE [weather |-> res.data, error |-> ""]

---------------------------------------------------------------------------
(* The state after construction, and the handlers *)

TypeOK ==
    /\ city \in Cities
    /\ error \in STRING
    /\ unit \in Units
    /\ hostname \in Hostnames
    /\ reactAppKey \in KeyValues
    /\ viteKey \in KeyValues
    /\ inflight \subseteq 1..Len(netCalls)
    /\ Len(netCalls) <= MaxSearches
    /\ last.id \in 0..Len(netCalls)
    /\ trigger \in {"none", "rejected", "accepted"}

\* lines 9-12, in any deployment
Init ==
    /\ city = <<>>
    /\ weather = NULL
    /\ error = ""
    /\ unit = "C"
    /\ hostname \in Hostnames
    /\ reactAppKey \in KeyValues
    /\ viteKey \in KeyValues
    /\ inflight = {}
    /\ netCalls = <<>>
    /\ last = [id |-> 0, resp |-> NoRequest]
    /\ trigger = "none"

\* an onChange that also clears the result
SetCityClears(v) ==
    /\ v # city
    /\ city' = v
    /\ weather' = NULL
    /\ error' = ""
    /\ UNCHANGED <<unit, hostname, reactAppKey, viteKey, inflight, netCalls,
                   last, trigger>>

\* line 88: onChange={(e) => setCity(e.target.value)}
SetCity(v) ==
    /\ v # city
    /\ city' = v
    /\ UNCHANGED <<weather, error, unit, hostname, reactAppKey, viteKey,
                   inflight, netCalls, last, trigger>>

\* a toggle that converts the stored temperature
SetUnitStoresConverted(u) ==
    /\ weather # NULL
    /\ unit' = u
    /\ weather' =
          IF u # unit /\ Has(weather, "temp")
          THEN [weather EXCEPT
                   !.temp = IF u = "F" THEN (@ * 9) \div 5 + 32
                            ELSE ((@ - 32) * 5) \div 9]
          ELSE weather
    /\ UNCHANGED <<city, error, hostname, reactAppKey, viteKey, inflight,
                   netCalls, last, trigger>>

\* lines 100-123: the two unit buttons, rendered only while weather is truthy
SetUnit(u) ==
    /\ weather # NULL
    /\ unit' = u
    /\ UNCHANGED <<city, weather, error, hostname, reactAppKey, viteKey,
                   inflight, netCalls, last, trigger>>

\* lines 52-56 (Search, Enter, Refresh): getWeather up to its suspension on
\* the network.  When fetchWeather throws before fetch() the await of line 56
\* resumes in the same task and the catch block runs at once.
getWeather ==
    IF Rejects(city)
    THEN /\ trigger' = "rejected"
         /\ UNCHANGED <<city, weather, error, unit, hostname, reactAppKey,
                        viteKey, inflight, netCalls, last>>
    ELSE /\ Len(netCalls) < MaxSearches
         /\ trigger' = "accepted"
         /\ IF ReachesNetwork
            THEN /\ netCalls' = Append(netCalls, 1)
                 /\ inflight' = inflight \cup {Len(netCalls) + 1}
                 /\ UNCHANGED <<weather, error, last>>
            ELSE /\ netCalls' = Append(netCalls, 0)
                 /\ weather' = Settle(fetchWeather(NoRequest)).weather
                 /\ error' = Settle(fetchWeather(NoRequest)).error
                 /\ last' = [id |-> Len(netCalls) + 1, resp |-> NoRequest]
                 /\ UNCHANGED inflight
         /\ UNCHANGED <<city, unit, hostname, reactAppKey, viteKey>>

\* a fetchWeather that asks again after a failure
CompleteRetry(id, resp) ==
    /\ id \in inflight
    /\ IF fetchWeather(resp).threw /\ netCalls[id] < 2
       THEN /\ netCalls' = [netCalls EXCEPT ![id] = @ + 1]
            /\ UNCHANGED <<weather, error, inflight, last>>
       ELSE /\ weather' = Settle(fetchWeather(resp)).weather
            /\ error' = Settle(fetchWeather(resp)).error
            /\ inflight' = inflight \ {id}
            /\ last' = [id |-> id, resp |-> resp]
            /\ UNCHANGED netCalls
    /\ UNCHANGED <<city, unit, hostname, reactAppKey, viteKey, trigger>>

\* a getWeather that drops the answer to a query older than one already answered
CompleteDropStale(id, resp) ==
    /\ id \in inflight
    /\ inflight' = inflight \ {id}
    /\ IF \E j \in (id + 1)..Len(netCalls) : j \notin inflight
       THEN UNCHANGED <<weather, error, last>>
       ELSE /\ weather' = Settle(fetchWeather(resp)).weather
            /\ error' = Settle(fetchWeather(resp)).error
            /\ last' = [id |-> id, resp |-> resp]
    /\ UNCHANGED <<city, unit, hostname, reactAppKey, viteKey, netCalls,
                   trigger>>

\* lines 23-25, 31-48 and 56-68: the network answers the fetch() of
\* invocation id, fetchWeather settles and getWeather resumes.  The two
\* setters of a branch run in one continuation and are applied together.
Complete(id, resp) ==
    /\ id \in inflight
    /\ weather' = Settle(fetchWeather(resp)).weather
    /\ error' = Settle(fetchWeather(resp)).error
    /\ inflight' = inflight \ {id}
    /\ last' = [id |-> id, resp |-> resp]
    /\ UNCHANGED <<city, unit, hostname, reactAppKey, viteKey, netCalls,
                   trigger>>

\* the answers the backend selected at line 21 can give
Answers == IF hostname \in {"localhost", "127.0.0.1"} THEN Responses ELSE ProviderResponses

Next ==
    \/ \E v \in Cities : SetCity(v)
    \/ \E u \in Units : SetUnit(u)
    \/ getWeather
    \/ \E id \in 1..MaxSearches, resp \in Answers : Complete(id, resp)

Spec == Init /\ [][Next]_vars

---------------------------------------------------------------------------
(* Properties *)

\* the invocations of fetchWeather that have settled
Resolved == {i \in 1..Len(netCalls) : i \notin inflight}

Production == hostname # "localhost" /\ hostname # "127.0.0.1"

NoKey == reactAppKey = "" /\ viteKey = ""

\* the answers after which fetchWeather throws
FailureKinds == {"none", "reject", "status", "badjson"}

FullyPopulated(w) == SixFields \subseteq DOMAIN w

\* C1: while the query text is empty or only white space, no step (so no
\* search trigger) starts a fetchWeather or puts a request in flight.
C1_BlankQueryNoRequest ==
    [][Trim(city) = <<>> => netCalls' = netCalls /\ inflight' \subseteq inflight]_vars

\* C1 witness: a search was triggered on a non-empty white-space-only text
\* and returned at line 53, with nothing ever requested.
C1_Witness ==
    /\ trigger = "rejected"
    /\ Len(city) = MaxLen
    /\ Trim(city) = <<>>
    /\ netCalls = <<>>

\* C2: in production with neither key variable set, every fetchWeather so
\* far made zero network requests and settled at once with the configuration
\* error, which getWeather shows as "Server Error" with no record.
C2_NoKeyNoRequest ==
    (Production /\ NoKey) =>
        /\ inflight = {}
        /\ \A i \in 1..Len(netCalls) : netCalls[i] = 0
        /\ last.id = Len(netCalls)
        /\ last.resp = NoRequest
        /\ last.id # 0 => fetchWeather(last.resp).threw
                          /\ error = "Server Error" /\ weather = NULL

\* C2 witness: two searches were made in production without a key.
C2_Witness ==
    Production /\ NoKey /\ Len(netCalls) = 2 /\ trigger = "accepted"

\* C3: when fetchWeather reaches the network (local mode, or production with
\* a key), each invocation has made exactly one request, in flight or
\* settled, whatever it settled to.
C3_ExactlyOneRequest ==
    (~Production \/ ~NoKey) => \A i \in 1..Len(netCalls) : netCalls[i] = 1

\* C3 witness: every invocation has settled, the last of at least two on a
\* non-success status, and each made one request.
C3_Witness ==
    /\ last.id >= 2
    /\ last.resp.kind = "status"
    /\ error = "Server Error"
    /\ Resolved = 1..Len(netCalls)
    /\ \A i \in Resolved : netCalls[i] = 1

\* C4 (as claimed): the record held is null or has all six fields.
C4_NullOrFullyPopulated == weather = NULL \/ FullyPopulated(weather)

\* C5 (as claimed): in either mode, once a 2xx answer whose body carries a
\* truthy error marker has been processed, the message is "City not found"
\* and no record is held.
C5_MarkerMeansNotFound ==
    (last.id # 0 /\ last.resp.kind = "json" /\ HasErrorMarker(last.resp.body))
        => error = "City not found" /\ weather = NULL

\* C6: after a fetchWeather that failed (no key, transport failure, non-2xx
\* status, unparseable body) the record is null and the message is "Server
\* Error"; the message is always one of the three values.
C6_FailureMeansServerError ==
    /\ error \in {"", "City not found", "Server Error"}
    /\ (last.id # 0 /\ last.resp.kind \in FailureKinds)
          => weather = NULL /\ error = "Server Error"

\* C6 witness: a record was on screen in local mode, and a later search
\* whose answer had a non-success status removed it.
C6_Witness ==
    /\ ~Production
    /\ last.id = 2
    /\ last.resp.kind = "status"
    /\ inflight = {}
    /\ weather = NULL
    /\ unit = "F"

\* C7: a step that changes the unit changes nothing else: the record (its
\* Celsius temperature included), the message and the query text stay.
C7_UnitToggleOnlyChangesUnit ==
    [][unit' # unit => weather' = weather /\ error' = error /\ city' = city
                       /\ inflight' = inflight /\ last' = last]_vars

\* C7 witness: Fahrenheit is selected, the stored temperature is still the
\* 100 degrees Celsius of the answer, and it is displayed as 212.
C7_Witness ==
    /\ unit = "F"
    /\ weather # NULL
    /\ Has(weather, "temp")
    /\ weather.temp = 100
    /\ last.resp = Json(LocalHot)
    /\ convertTemp(weather.temp) = 212

\* C8: the record changes only in a step in which an invocation settles,
\* and then it is exactly what that fetchWeather returned (nothing of the
\* old record is kept) or null (failure, or not-found marker).
C8_RecordChangesOnlyOnCompletion ==
    [][weather' # weather =>
          /\ last'.id # last.id
          /\ \/ weather' = NULL /\ error' # ""
             \/ /\ ~fetchWeather(last'.resp).threw
                /\ weather' = fetchWeather(last'.resp).data
                /\ error' = ""]_vars

\* C8 witness: the second search returned a record with fewer fields than
\* the usual one, and it is held as it came.
C8_Witness ==
    /\ last.id >= 2
    /\ weather # NULL
    /\ ~FullyPopulated(weather)
    /\ Has(weather, "city")
    /\ city # <<>>
    /\ trigger = "accepted"

\* C9: a search in flight is never cancelled or ignored: it leaves the set of
\* in-flight invocations only by settling, and its result is then what is
\* shown, even when a later search has already settled.
C9_NoCancelNoIgnore ==
    [][\A i \in inflight :
          i \in inflight' \/ (last'.id = i /\ (weather' = NULL <=> error' # ""))]_vars

\* C9 witness: the record shown came from an invocation older than one that
\* has already settled.
C9_StaleShown ==
    /\ last.id # 0
    /\ weather # NULL
    /\ \E j \in Resolved : j > last.id

\* C10: the record and the message are never both set.
C10_NotBothSet == ~(weather # NULL /\ error # "")

\* C10 witness: searches overlapped, the older one settled last with the
\* not-found marker, and the message is shown without a record.
C10_Witness ==
    /\ error = "City not found"
    /\ weather = NULL
    /\ \E j \in Resolved : j > last.id

===========================================================================
